---- MODULE Spec2Model ----
(***************************************************************************)
(* Model of uncertainty_sampling_pytorch.py: softmax and the four          *)
(* uncertainty scores (margin, ratio, least confidence, entropy).          *)
(*                                                                         *)
(* The functions compute on torch tensors of the default dtype, float32.   *)
(* A float32 value is modelled bit-faithfully as a record                  *)
(*     [k |-> "fin" | "inf" | "nan", s |-> sign, m |-> mantissa, e |-> exp]*)
(* whose finite value is (-1)^s * m * 2^e, kept canonical: a normal has    *)
(* 2^23 <= m < 2^24, a subnormal has e = Emin and m < 2^23, zero has       *)
(* m = 0 and e = Emin.  Add, Sub, Mul and Div round to nearest, ties to    *)
(* even, overflow to infinity and produce NaN as IEEE 754 does.            *)
(*                                                                         *)
(* base ** x and log2 are taken as correctly rounded.  Pow is defined for a *)
(* base that is a power of two or the default base and an exponent that is *)
(* a multiple of 1/16; Log2 for the special values, the powers of two and  *)
(* the small dyadic rationals.  The inputs of the model lie inside these   *)
(* domains, so that every call of every function on every input is a step. *)
(***************************************************************************)
EXTENDS Integers, Sequences, FiniteSets

\* ------------------------------------------------------------------------
\* float32: the format
\* ------------------------------------------------------------------------

\* Number of significand bits of a float32 (torch's default dtype).
Prec == 24

\* Exponent of the unit of the least subnormal, 2^-149.
Emin == -149

\* Exponent of the greatest binade: the largest finite value is below 2^128.
Emax == 127

Pow2(n) == 2 ^ n

Min2(a, b) == IF a <= b THEN a ELSE b

Max2(a, b) == IF a >= b THEN a ELSE b

RECURSIVE BitLen(_)
\* Number of bits of the natural number n (0 for 0).
BitLen(n) == IF n = 0 THEN 0 ELSE 1 + BitLen(n \div 2)

NaN == [k |-> "nan", s |-> 0, m |-> 0, e |-> 0]

Inf(s) == [k |-> "inf", s |-> s, m |-> 0, e |-> 0]

Fin(s, m, e) == [k |-> "fin", s |-> s, m |-> m, e |-> e]

Zero(s) == Fin(s, 0, Emin)

IsNaN(a) == a.k = "nan"

IsInf(a) == a.k = "inf"

IsFinite(a) == a.k = "fin"

IsZero(a) == a.k = "fin" /\ a.m = 0

\* The float32 nearest to (-1)^s * (M + f) * 2^E, where 0 <= M < 2^30 and the
\* fraction f is 0 when sticky is FALSE and some value strictly between 0 and 1
\* when it is TRUE (round to nearest, ties to even; overflow gives infinity).
\* A caller that sets sticky passes at least Prec + 2 bits in M, or an E so
\* small that the shift below discards at least two bits.
Round(s, M, E, sticky) ==
    LET nb == BitLen(M)
        sh == Max2(nb - Prec, Emin - E)
    IN  IF M = 0 THEN Zero(s)
        ELSE IF sh <= 0
        THEN LET l == Min2(Prec - nb, E - Emin)
                 m == M * Pow2(l)
                 e == E - l
             IN  IF m >= Pow2(Prec - 1) /\ e > Emax - (Prec - 1)
                 THEN Inf(s) ELSE Fin(s, m, e)
        ELSE IF sh > nb THEN Zero(s)
        ELSE LET kept == M \div Pow2(sh)
                 rem  == M % Pow2(sh)
                 half == Pow2(sh - 1)
                 up   == \/ rem > half
                         \/ rem = half /\ (sticky \/ kept % 2 = 1)
                 m0   == IF up THEN kept + 1 ELSE kept
                 m1   == IF m0 = Pow2(Prec) THEN Pow2(Prec - 1) ELSE m0
                 e1   == IF m0 = Pow2(Prec) THEN E + sh + 1 ELSE E + sh
             IN  IF m1 >= Pow2(Prec - 1) /\ e1 > Emax - (Prec - 1)
                 THEN Inf(s) ELSE Fin(s, m1, e1)

\* An integer |n| < 2^30 as a float32 (torch.tensor of a Python number).
FromInt(n) == IF n < 0 THEN Round(1, -n, 0, FALSE) ELSE Round(0, n, 0, FALSE)

\* The dyadic rational n / 2^b as a float32, exact for |n| < 2^24.
Dyadic(n, b) == IF n < 0 THEN Round(1, -n, -b, FALSE) ELSE Round(0, n, -b, FALSE)

One == FromInt(1)

Neg(a) == IF IsNaN(a) THEN a ELSE [a EXCEPT !.s = 1 - a.s]

Abs(a) == IF IsNaN(a) THEN a ELSE [a EXCEPT !.s = 0]

\* |a| < |b| for finite a, b (the canonical form orders by exponent, then mantissa).
MagLt(a, b) == a.e < b.e \/ (a.e = b.e /\ a.m < b.m)

\* a < b as IEEE 754 compares: FALSE when either is NaN, and -0 = +0.
Lt(a, b) ==
    IF IsNaN(a) \/ IsNaN(b) THEN FALSE
    ELSE IF IsZero(a) /\ IsZero(b) THEN FALSE
    ELSE IF a.s # b.s THEN a.s = 1
    ELSE IF IsInf(a) \/ IsInf(b)
         THEN IF a.s = 0 THEN ~IsInf(a) /\ IsInf(b) ELSE IsInf(a) /\ ~IsInf(b)
    ELSE IF a.s = 0 THEN MagLt(a, b) ELSE MagLt(b, a)

\* a = b as IEEE 754 compares.
Eq(a, b) ==
    IF IsNaN(a) \/ IsNaN(b) THEN FALSE
    ELSE IF IsZero(a) /\ IsZero(b) THEN TRUE
    ELSE a = b

Le(a, b) == Lt(a, b) \/ Eq(a, b)

Gt(a, b) == Lt(b, a)

\* ------------------------------------------------------------------------
\* float32: arithmetic
\* ------------------------------------------------------------------------

\* a + b for finite a, b with a.e >= b.e, on three guard bits and a sticky bit.
AddFinite(a, b) ==
    LET d   == a.e - b.e
        A   == a.m * 8
        lost == d > 3 /\ b.m # 0 /\ (d - 3 >= Prec + 1 \/ b.m % Pow2(d - 3) # 0)
        B   == IF d <= 3 THEN b.m * Pow2(3 - d)
               ELSE IF d - 3 >= Prec + 1 THEN 0
               ELSE b.m \div Pow2(d - 3)
        E   == a.e - 3
    IN  IF a.s = b.s THEN Round(a.s, A + B, E, lost)
        ELSE IF lost THEN Round(a.s, A - B - 1, E, TRUE)
        ELSE IF A = B THEN Zero(0)
        ELSE IF A > B THEN Round(a.s, A - B, E, FALSE)
        ELSE Round(b.s, B - A, E, FALSE)

Add(a, b) ==
    IF IsNaN(a) \/ IsNaN(b) THEN NaN
    ELSE IF IsInf(a) THEN (IF IsInf(b) /\ a.s # b.s THEN NaN ELSE a)
    ELSE IF IsInf(b) THEN b
    ELSE IF IsZero(a) /\ IsZero(b) THEN (IF a.s = 1 /\ b.s = 1 THEN Zero(1) ELSE Zero(0))
    ELSE IF a.e >= b.e THEN AddFinite(a, b) ELSE AddFinite(b, a)

Sub(a, b) == Add(a, Neg(b))

Xor(s, t) == IF s = t THEN 0 ELSE 1

\* a * b for finite non-zero a, b: the 48-bit product in two 24-bit limbs, cut
\* to its 29 leading bits and a sticky bit.
MulFinite(a, b) ==
    LET h   == Pow2(12)
        a1  == a.m \div h
        a0  == a.m % h
        b1  == b.m \div h
        b0  == b.m % h
        mid == a1 * b0 + a0 * b1
        low == a0 * b0 + (mid % h) * h
        lo  == low % Pow2(24)
        hi  == a1 * b1 + mid \div h + low \div Pow2(24)
        nbh == BitLen(hi)
        t   == nbh - 5
        s   == Xor(a.s, b.s)
    IN  IF nbh <= 5 THEN Round(s, hi * Pow2(24) + lo, a.e + b.e, FALSE)
        ELSE Round(s, hi * Pow2(24 - t) + lo \div Pow2(t), a.e + b.e + t,
                   lo % Pow2(t) # 0)

Mul(a, b) ==
    IF IsNaN(a) \/ IsNaN(b) THEN NaN
    ELSE IF IsInf(a) \/ IsInf(b)
         THEN (IF IsZero(a) \/ IsZero(b) THEN NaN ELSE Inf(Xor(a.s, b.s)))
    ELSE IF IsZero(a) \/ IsZero(b) THEN Zero(Xor(a.s, b.s))
    ELSE MulFinite(a, b)

RECURSIVE LongDiv(_, _, _, _)
\* <<q', r'>> after k more steps of binary long division by d, from the
\* quotient q and the remainder r < d.
LongDiv(q, r, d, k) ==
    IF k = 0 THEN <<q, r>>
    ELSE IF 2 * r >= d THEN LongDiv(2 * q + 1, 2 * r - d, d, k - 1)
    ELSE LongDiv(2 * q, 2 * r, d, k - 1)

\* a / b for finite non-zero a, b: both significands normalised to 24 bits, the
\* quotient to 26 fraction bits and a sticky bit.
DivFinite(a, b) ==
    LET la == Prec - BitLen(a.m)
        lb == Prec - BitLen(b.m)
        na == a.m * Pow2(la)
        nb == b.m * Pow2(lb)
        qr == LongDiv(na \div nb, na % nb, nb, 26)
    IN  Round(Xor(a.s, b.s), qr[1], (a.e - la) - (b.e - lb) - 26, qr[2] # 0)

Div(a, b) ==
    IF IsNaN(a) \/ IsNaN(b) THEN NaN
    ELSE IF IsInf(a) THEN (IF IsInf(b) THEN NaN ELSE Inf(Xor(a.s, b.s)))
    ELSE IF IsInf(b) THEN Zero(Xor(a.s, b.s))
    ELSE IF IsZero(b) THEN (IF IsZero(a) THEN NaN ELSE Inf(Xor(a.s, b.s)))
    ELSE IF IsZero(a) THEN Zero(Xor(a.s, b.s))
    ELSE DivFinite(a, b)

\* ------------------------------------------------------------------------
\* float32: the library functions the program calls
\* ------------------------------------------------------------------------

RECURSIVE TrailingZeros(_)
\* Number of trailing zero bits of n > 0 (0 for 0).
TrailingZeros(n) == IF n = 0 \/ n % 2 = 1 THEN 0 ELSE 1 + TrailingZeros(n \div 2)

\* n = OddPart(n) * 2^TrailingZeros(n).
OddPart(n) == n \div Pow2(TrailingZeros(n))

\* The default base, math.exp(1), as the float32 the tensor arithmetic uses.
E32 == Fin(0, 11401300, -22)

\* E32^n for -3 <= n <= 3, correctly rounded.
PowETable ==
    [n \in -3..3 |->
        CASE n = -3 -> Fin(0, 13364616, -28)
          [] n = -2 -> Fin(0, 9082198, -26)
          [] n = -1 -> Fin(0, 12343986, -25)
          [] n = 0  -> Fin(0, 8388608, -23)
          [] n = 1  -> Fin(0, 11401300, -22)
          [] n = 2  -> Fin(0, 15495973, -21)
          [] n = 3  -> Fin(0, 10530605, -19)]

\* E32^n is above the largest float32 from n = 89 on (infinity) and below half
\* the least subnormal from n = -104 down (zero).
PowEOverflow == 89

PowEUnderflow == -104

IsPowerOfTwo(a) == IsFinite(a) /\ a.s = 0 /\ a.m # 0 /\ OddPart(a.m) = 1

\* Exponents are taken in units of 2^-PowBits (sixteenths).
PowBits == 4

\* The integer q with a = q / 2^PowBits, for a finite float32 that is such a
\* multiple.
Sixteenths(a) ==
    LET e == a.e + PowBits
        q == IF a.m = 0 THEN 0
             ELSE IF e >= 0 THEN a.m * Pow2(e)
             ELSE a.m \div Pow2(-e)
    IN  IF a.s = 1 THEN -q ELSE q

\* floor(2^(r/16) * 2^28) for 0 < r < 16; none of these powers is a dyadic
\* rational.
Exp2Table ==
    [r \in 1..15 |->
        CASE r = 1  -> 280320108
          [] r = 2  -> 292730940
          [] r = 3  -> 305691246
          [] r = 4  -> 319225354
          [] r = 5  -> 333358668
          [] r = 6  -> 348117717
          [] r = 7  -> 363530205
          [] r = 8  -> 379625062
          [] r = 9  -> 396432499
          [] r = 10 -> 413984066
          [] r = 11 -> 432312706
          [] r = 12 -> 451452825
          [] r = 13 -> 471440349
          [] r = 14 -> 492312796
          [] r = 15 -> 514109346]

\* floor(E32^(q/16) * 2^28) for 0 < |q| < 16; none of these powers is a dyadic
\* rational.
PowEFracTable ==
    [q \in (-15..15) \ {0} |->
        CASE q = -15 -> 105120837
          [] q = -14 -> 111900549
          [] q = -13 -> 119117514
          [] q = -12 -> 126799933
          [] q = -11 -> 134977826
          [] q = -10 -> 143683148
          [] q = -9 -> 152949914
          [] q = -8 -> 162814336
          [] q = -7 -> 173314958
          [] q = -6 -> 184492813
          [] q = -5 -> 196391576
          [] q = -4 -> 209057744
          [] q = -3 -> 222540810
          [] q = -2 -> 236893459
          [] q = -1 -> 252171774
          [] q = 1  -> 285748054
          [] q = 2  -> 304177220
          [] q = 3  -> 323794965
          [] q = 4  -> 344677945
          [] q = 5  -> 366907762
          [] q = 6  -> 390571279
          [] q = 7  -> 415760961
          [] q = 8  -> 442575239
          [] q = 9  -> 471118889
          [] q = 10 -> 501503445
          [] q = 11 -> 533847638
          [] q = 12 -> 568277851
          [] q = 13 -> 604928623
          [] q = 14 -> 643943166
          [] q = 15 -> 685473931]

\* b ** (q/16), correctly rounded, for b a power of two or the default base.
\* A power of two 2^j gives 2^floor(j*q/16) * 2^(r/16) with r the remainder;
\* the default base is tabulated on the integers from -3 to 3 and on the
\* sixteenths between -1 and 1, and overflows or underflows beyond the
\* thresholds.
PowSixteenths(b, q) ==
    LET G == Pow2(PowBits)
    IN  IF b = E32
        THEN IF q >= G * PowEOverflow THEN Inf(0)
             ELSE IF q <= G * PowEUnderflow THEN Zero(0)
             ELSE IF q % G = 0 THEN PowETable[q \div G]
             ELSE Round(0, PowEFracTable[q], -28, TRUE)
        ELSE LET p == (b.e + TrailingZeros(b.m)) * q
                 n == p \div G
                 r == p % G
             IN  IF r = 0 THEN Round(0, 1, n, FALSE)
                 ELSE Round(0, Exp2Table[r], n - 28, TRUE)

\* base ** x of one element (line 19).
Pow(b, a) == PowSixteenths(b, Sixteenths(a))

\* floor(log2(o) * 2^28) for the odd o from 3 to 15.
Log2Table ==
    [o \in {3, 5, 7, 9, 11, 13, 15} |->
        CASE o = 3  -> 425460131
          [] o = 5  -> 623287826
          [] o = 7  -> 753593598
          [] o = 9  -> 850920263
          [] o = 11 -> 928634104
          [] o = 13 -> 993329223
          [] o = 15 -> 1048747958]

\* log2(o * 2^t) in units of 2^-28, rounded down.
Log2Fixed(o, t) == t * Pow2(28) + Log2Table[o]

\* torch.log2 of one element, correctly rounded (line 106): exact on a power
\* of two, and from the table on o * 2^t for a tabulated odd o.
Log2(a) ==
    IF IsNaN(a) THEN NaN
    ELSE IF IsZero(a) THEN Inf(1)
    ELSE IF a.s = 1 THEN NaN
    ELSE IF IsInf(a) THEN Inf(0)
    ELSE LET o == OddPart(a.m)
             t == a.e + TrailingZeros(a.m)
         IN  IF o = 1 THEN FromInt(t)
             ELSE LET v == Log2Fixed(o, t)
                  IN  IF v >= 0 THEN Round(0, v, -28, TRUE)
                      ELSE Round(1, -v - 1, -28, TRUE)

\* math.log2(n) of a Python int, as the float32 the tensor division uses
\* (line 109).
MathLog2(n) == Log2(FromInt(n))

\* a / b of two Python ints (true division), as the float32 the tensor
\* multiplication uses (line 88).
PyTrueDiv(a, b) == Div(FromInt(a), FromInt(b))

RECURSIVE SumFrom(_, _, _)
SumFrom(t, i, acc) == IF i > Len(t) THEN acc ELSE SumFrom(t, i + 1, Add(acc, t[i]))

\* torch.sum of a one-dimensional tensor: the elements added in order to an
\* accumulator that starts at 0.
torch_sum(t) == SumFrom(t, 1, Zero(0))

RECURSIVE MaxFrom(_, _, _)
MaxFrom(t, i, best) ==
    IF i > Len(t) THEN best
    ELSE MaxFrom(t, i + 1, IF Gt(t[i], best) THEN t[i] ELSE best)

RECURSIVE MinFrom(_, _, _)
MinFrom(t, i, best) ==
    IF i > Len(t) THEN best
    ELSE MinFrom(t, i + 1, IF Lt(t[i], best) THEN t[i] ELSE best)

\* Mutant of torch_max: the minimum taken instead (torch.min).
torch_max_as_min(t) == MinFrom(t, 2, t[1])

\* torch.max of a non-empty one-dimensional tensor without NaN.
torch_max(t) == MaxFrom(t, 2, t[1])

RECURSIVE Insert(_, _)
\* v put into the descending sequence srt, after the elements not below it.
Insert(srt, v) ==
    IF Len(srt) = 0 THEN <<v>>
    ELSE IF Gt(v, srt[1]) THEN <<v>> \o srt
    ELSE <<srt[1]>> \o Insert(Tail(srt), v)

RECURSIVE SortFrom(_, _, _)
SortFrom(t, i, srt) == IF i > Len(t) THEN srt ELSE SortFrom(t, i + 1, Insert(srt, t[i]))

RECURSIVE InsertAscending(_, _)
InsertAscending(srt, v) ==
    IF Len(srt) = 0 THEN <<v>>
    ELSE IF Lt(v, srt[1]) THEN <<v>> \o srt
    ELSE <<srt[1]>> \o InsertAscending(Tail(srt), v)

RECURSIVE SortAscendingFrom(_, _, _)
SortAscendingFrom(t, i, srt) ==
    IF i > Len(t) THEN srt ELSE SortAscendingFrom(t, i + 1, InsertAscending(srt, t[i]))

\* Mutant of torch_sort: descending=True left out, so the sort is ascending.
torch_sort_ascending(t) == [values |-> SortAscendingFrom(t, 1, <<>>), self |-> t]

\* Mutant of torch_sort: the sort done in place (prob_dist.sort_ style), so
\* that the caller's tensor is reordered too.
torch_sort_inplace(t) == [values |-> SortFrom(t, 1, <<>>), self |-> SortFrom(t, 1, <<>>)]

\* torch.sort(t, descending=True) builds a new tensor of the sorted values and
\* leaves its argument as it was: `values` is the tensor returned, `self` the
\* argument's contents after the call.
torch_sort(t) == [values |-> SortFrom(t, 1, <<>>), self |-> t]

\* ------------------------------------------------------------------------
\* The outcome of a call
\* ------------------------------------------------------------------------

NoCall == [kind |-> "none", val |-> Zero(0), vec |-> <<>>, exc |-> ""]

\* A Python float returned by .item().
Value(f) == [kind |-> "float", val |-> f, vec |-> <<>>, exc |-> ""]

\* A tensor returned.
Tensor(v) == [kind |-> "tensor", val |-> Zero(0), vec |-> v, exc |-> ""]

\* An exception raised out of the call.
Raise(x) == [kind |-> "raise", val |-> Zero(0), vec |-> <<>>, exc |-> x]

\* ------------------------------------------------------------------------
\* The five functions.  Each returns the call's outcome `ret` and `arg`, the
\* contents of the caller's tensor after the call.
\* ------------------------------------------------------------------------

RECURSIVE PowEach(_, _, _, _)
\* base ** tensor, element by element (line 19).
PowEach(base, tensor, i, acc) ==
    IF i > Len(tensor) THEN acc
    ELSE PowEach(base, tensor, i + 1, Append(acc, Pow(base, tensor[i])))

RECURSIVE DivEach(_, _, _, _)
\* tensor / d, element by element, d being a tensor of one number (line 22).
DivEach(tensor, d, i, acc) ==
    IF i > Len(tensor) THEN acc
    ELSE DivEach(tensor, d, i + 1, Append(acc, Div(tensor[i], d)))

\* softmax (lines 5-23).
softmax(tensor, base) ==
    LET exps      == PowEach(base, tensor, 1, <<>>)
        sum_exps  == torch_sum(exps)
        prob_dist == DivEach(exps, sum_exps, 1, <<>>)
    IN  [ret |-> Tensor(prob_dist), arg |-> tensor]

\* Mutant of margin_confidence: the difference taken the other way round.
margin_confidence_swapped(prob_dist, sorted) ==
    LET srt   == IF ~sorted THEN torch_sort(prob_dist)
                 ELSE [values |-> prob_dist, self |-> prob_dist]
        local == srt.values
    IN  [ret |-> IF Len(local) < 2 THEN Raise("IndexError")
                 ELSE Value(Sub(One, Sub(local[2], local[1]))),
         arg |-> srt.self]

\* margin_confidence (lines 26-44); prob_dist.data[1] of a one-element tensor
\* raises IndexError.
margin_confidence(prob_dist, sorted) ==
    LET srt   == IF ~sorted THEN torch_sort(prob_dist)
                 ELSE [values |-> prob_dist, self |-> prob_dist]
        local == srt.values
    IN  [ret |-> IF Len(local) < 2 THEN Raise("IndexError")
                 ELSE Value(Sub(One, Sub(local[1], local[2]))),
         arg |-> srt.self]

\* Mutant of ratio_confidence: the ratio inverted (p1 / p2).
ratio_confidence_inverted(prob_dist, sorted) ==
    LET srt   == IF ~sorted THEN torch_sort(prob_dist)
                 ELSE [values |-> prob_dist, self |-> prob_dist]
        local == srt.values
    IN  [ret |-> IF Len(local) < 2 THEN Raise("IndexError")
                 ELSE Value(Div(local[1], local[2])),
         arg |-> srt.self]

\* ratio_confidence (lines 47-64).
ratio_confidence(prob_dist, sorted) ==
    LET srt   == IF ~sorted THEN torch_sort(prob_dist)
                 ELSE [values |-> prob_dist, self |-> prob_dist]
        local == srt.values
    IN  [ret |-> IF Len(local) < 2 THEN Raise("IndexError")
                 ELSE Value(Div(local[2], local[1])),
         arg |-> srt.self]

\* Mutant of least_confidence: the flag ignored, the maximum always scanned.
least_confidence_rescan(prob_dist, sorted) ==
    LET simple_least_conf == torch_max(prob_dist)
        num_labels        == Len(prob_dist)
    IN  [ret |-> IF num_labels - 1 = 0 THEN Raise("ZeroDivisionError")
                 ELSE Value(Mul(Sub(One, simple_least_conf),
                                PyTrueDiv(num_labels, num_labels - 1))),
         arg |-> prob_dist]

\* Mutant of least_confidence: the parentheses of the normalisation lost,
\* num_labels / num_labels - 1.
least_confidence_precedence(prob_dist, sorted) ==
    LET simple_least_conf == IF sorted THEN prob_dist[1] ELSE torch_max(prob_dist)
        num_labels        == Len(prob_dist)
    IN  [ret |-> Value(Mul(Sub(One, simple_least_conf),
                           Sub(PyTrueDiv(num_labels, num_labels), One))),
         arg |-> prob_dist]

\* least_confidence (lines 69-90); num_labels / (num_labels - 1) divides two
\* Python ints and raises ZeroDivisionError when num_labels is 1.
least_confidence(prob_dist, sorted) ==
    LET simple_least_conf == IF sorted THEN prob_dist[1] ELSE torch_max(prob_dist)
        num_labels        == Len(prob_dist)
    IN  [ret |-> IF num_labels - 1 = 0 THEN Raise("ZeroDivisionError")
                 ELSE Value(Mul(Sub(One, simple_least_conf),
                                PyTrueDiv(num_labels, num_labels - 1))),
         arg |-> prob_dist]

\* Mutant of entropy_score: zero probabilities special-cased to contribute 0
\* (the 0 * log(0) = 0 convention).
entropy_score_skip_zeros(prob_dist) ==
    LET log_probs   == [i \in 1..Len(prob_dist) |->
                           IF IsZero(prob_dist[i]) THEN Zero(0)
                           ELSE Mul(prob_dist[i], Log2(prob_dist[i]))]
        raw_entropy == Sub(Zero(0), torch_sum(log_probs))
    IN  [ret |-> Value(Div(raw_entropy, MathLog2(Len(prob_dist)))),
         arg |-> prob_dist]

\* entropy_score (lines 94-111); math.log2(1) is 0.0 and the tensor division
\* by it gives an infinity or NaN, not an exception.
entropy_score(prob_dist) ==
    LET log_probs   == [i \in 1..Len(prob_dist) |-> Mul(prob_dist[i], Log2(prob_dist[i]))]
        raw_entropy == Sub(Zero(0), torch_sum(log_probs))
    IN  [ret |-> Value(Div(raw_entropy, MathLog2(Len(prob_dist)))),
         arg |-> prob_dist]

\* ------------------------------------------------------------------------
\* Inputs
\* ------------------------------------------------------------------------

\* Greatest length of a vector.
MaxLen == 4

\* Probabilities are the multiples of 2^-GridBits.
GridBits == 3

\* Raw scores: moderate ones, one whose exponential overflows, one whose
\* exponential underflows.
Scores == {-150, -1, 0, 2, 128}

\* Bases of the exponential: the default, and powers of two on either side of 1.
Bases == {E32, Dyadic(1, 1), FromInt(1), FromInt(2), FromInt(4)}

ScoreVectors ==
    UNION {[1..n -> {FromInt(c) : c \in Scores}] : n \in 1..MaxLen}

RECURSIVE GridSum(_, _)
GridSum(ks, i) == IF i = 0 THEN 0 ELSE ks[i] + GridSum(ks, i - 1)

\* Every vector of one probability, and every vector of two or more
\* probabilities of the grid that sum to 1, in every order.
GridVectors ==
    LET G == Pow2(GridBits)
    IN  UNION {{[i \in 1..n |-> Dyadic(ks[i], GridBits)] :
                  ks \in {c \in [1..n -> 0..G] : n = 1 \/ GridSum(c, n) = G}} :
               n \in 1..MaxLen}

Inputs == ScoreVectors \cup GridVectors

\* ------------------------------------------------------------------------
\* The state machine: a caller holds a tensor, calls one of the functions on
\* it, takes the outcome, and calls again.
\* ------------------------------------------------------------------------

VARIABLES
    tensor,   \* contents of the caller's tensor
    fn,       \* the function whose call has just returned ("none": no call pending)
    base,     \* the base argument of that call (the default when it takes none)
    sorted,   \* the sorted argument of that call (the default when it takes none)
    out       \* the outcome of that call

vars == <<tensor, fn, base, sorted, out>>

\* The defaults of the keyword arguments (lines 5, 26, 47 and 69).
DefaultBase == E32

DefaultSorted == FALSE

Init ==
    /\ tensor \in Inputs
    /\ fn = "none"
    /\ base = DefaultBase
    /\ sorted = DefaultSorted
    /\ out = NoCall

\* The caller calls softmax(tensor, base=b).
Softmax(b) ==
    /\ fn = "none"
    /\ \E r \in {softmax(tensor, b)} :
          /\ out' = r.ret
          /\ tensor' = r.arg
    /\ fn' = "softmax"
    /\ base' = b
    /\ sorted' = DefaultSorted

\* The caller calls margin_confidence(tensor, sorted=s).
MarginConfidence(s) ==
    /\ fn = "none"
    /\ \E r \in {margin_confidence(tensor, s)} :
          /\ out' = r.ret
          /\ tensor' = r.arg
    /\ fn' = "margin_confidence"
    /\ sorted' = s
    /\ base' = DefaultBase

\* The caller calls ratio_confidence(tensor, sorted=s).
RatioConfidence(s) ==
    /\ fn = "none"
    /\ \E r \in {ratio_confidence(tensor, s)} :
          /\ out' = r.ret
          /\ tensor' = r.arg
    /\ fn' = "ratio_confidence"
    /\ sorted' = s
    /\ base' = DefaultBase

\* The caller calls least_confidence(tensor, sorted=s).
LeastConfidence(s) ==
    /\ fn = "none"
    /\ \E r \in {least_confidence(tensor, s)} :
          /\ out' = r.ret
          /\ tensor' = r.arg
    /\ fn' = "least_confidence"
    /\ sorted' = s
    /\ base' = DefaultBase

\* The caller calls entropy_score(tensor).
EntropyScore ==
    /\ fn = "none"
    /\ \E r \in {entropy_score(tensor)} :
          /\ out' = r.ret
          /\ tensor' = r.arg
    /\ fn' = "entropy_score"
    /\ base' = DefaultBase
    /\ sorted' = DefaultSorted

\* The caller has taken the outcome and is ready for its next call, on the
\* tensor as the call left it.
Return ==
    /\ fn # "none"
    /\ fn' = "none"
    /\ out' = NoCall
    /\ base' = DefaultBase
    /\ sorted' = DefaultSorted
    /\ UNCHANGED tensor

Next ==
    \/ \E b \in Bases : Softmax(b)
    \/ \E s \in BOOLEAN : MarginConfidence(s)
    \/ \E s \in BOOLEAN : RatioConfidence(s)
    \/ \E s \in BOOLEAN : LeastConfidence(s)
    \/ EntropyScore
    \/ Return

Spec == Init /\ [][Next]_vars

\* ------------------------------------------------------------------------
\* Vocabulary of the properties, defined apart from the functions above
\* ------------------------------------------------------------------------

N == Len(tensor)

\* The value of a float32 in [0, 1] in units of 2^-23, or -1 when it is not
\* such a value or not a whole number of units.
Units(a) ==
    IF ~IsFinite(a) THEN -1
    ELSE IF a.m = 0 THEN 0
    ELSE IF a.s = 1 \/ a.e > -(Prec - 1) THEN -1
    ELSE IF a.e = -(Prec - 1) THEN (IF a.m = Pow2(Prec - 1) THEN a.m ELSE -1)
    ELSE IF -(Prec - 1) - a.e >= Prec THEN -1
    ELSE IF a.m % Pow2(-(Prec - 1) - a.e) # 0 THEN -1
    ELSE a.m \div Pow2(-(Prec - 1) - a.e)

RECURSIVE UnitsSum(_, _)
UnitsSum(t, i) == IF i = 0 THEN 0 ELSE Units(t[i]) + UnitsSum(t, i - 1)

\* t is a probability distribution: non-negative entries whose exact sum is 1.
IsProbDist(t) ==
    /\ \A i \in 1..Len(t) : Units(t[i]) >= 0
    /\ UnitsSum(t, Len(t)) = Pow2(Prec - 1)

\* t is one-hot: one entry is 1 and every other entry is 0.
IsOneHot(t) ==
    \E i \in 1..Len(t) :
        /\ t[i] = One
        /\ \A j \in 1..Len(t) : j # i => IsZero(t[j])

IsMaxAt(t, i) == \A j \in 1..Len(t) : Le(t[j], t[i])

TopIndex(t) == CHOOSE i \in 1..Len(t) : IsMaxAt(t, i)

RemoveAt(t, i) == [j \in 1..(Len(t) - 1) |-> IF j < i THEN t[j] ELSE t[j + 1]]

\* p1: the largest entry.
Largest(t) == t[TopIndex(t)]

\* p2: the largest entry once one occurrence of p1 is set aside.
SecondLargest(t) == Largest(RemoveAt(t, TopIndex(t)))

RECURSIVE DescendingOf(_)
\* The entries of t from largest to smallest (what a caller who passes
\* sorted=True has prepared).
DescendingOf(t) ==
    IF Len(t) = 0 THEN <<>>
    ELSE <<Largest(t)>> \o DescendingOf(RemoveAt(t, TopIndex(t)))

IsDescending(t) == \A i \in 1..(Len(t) - 1) : Le(t[i + 1], t[i])

RECURSIVE SumOf(_, _)
\* The float32 sum of the first i entries of t.
SumOf(t, i) == IF i = 0 THEN Zero(0) ELSE Add(SumOf(t, i - 1), t[i])

\* The largest float32 not above 1e-6: |d| <= 1e-6 for a float32 d exactly
\* when |d| <= Micro.
Micro == Fin(0, 8796093, -43)

InUnitRange(v) == Le(Zero(0), v) /\ Le(v, One)

\* ------------------------------------------------------------------------
\* C1
\* ------------------------------------------------------------------------

\* C1: for every raw score vector of finite reals and every positive base,
\* softmax returns a vector of the same length whose entries are all
\* non-negative and whose sum is 1.0 within 1e-6.
C1_SoftmaxIsDistribution ==
    fn = "softmax" =>
        /\ out.kind = "tensor"
        /\ Len(out.vec) = N
        /\ \A i \in 1..N : Le(Zero(0), out.vec[i])
        /\ Le(Abs(Sub(SumOf(out.vec, N), One)), Micro)

\* ------------------------------------------------------------------------
\* C2
\* ------------------------------------------------------------------------

C3_RatioInHalfOpenRange ==
    (/\ fn = "ratio_confidence"
     /\ sorted = FALSE
     /\ N >= 2
     /\ IsProbDist(tensor))
    => /\ out.kind = "float"
       /\ out.val = Div(SecondLargest(tensor), Largest(tensor))
       /\ Lt(Zero(0), out.val) /\ Le(out.val, One)

\* C3 (amended): for every probability distribution of length N >= 2,
\* ratio_confidence with sorted=false returns p2/p1 and that value lies in
\* [0, 1]; it is 0 exactly when the second-largest probability is 0.
C3_RatioInClosedRange ==
    (/\ fn = "ratio_confidence"
     /\ sorted = FALSE
     /\ N >= 2
     /\ IsProbDist(tensor))
    => /\ out.kind = "float"
       /\ out.val = Div(SecondLargest(tensor), Largest(tensor))
       /\ InUnitRange(out.val)
       /\ IsZero(out.val) <=> IsZero(SecondLargest(tensor))

\* A ratio call on a distribution whose second-largest probability is 0, not
\* in first place, returned 0.
C3_Witness ==
    /\ fn = "ratio_confidence"
    /\ sorted = FALSE
    /\ N >= 2
    /\ IsProbDist(tensor)
    /\ IsZero(tensor[1])
    /\ IsZero(SecondLargest(tensor))
    /\ out = Value(Zero(0))

\* ------------------------------------------------------------------------
\* C4
\* ------------------------------------------------------------------------

\* C4: for every vector of length N >= 2, in whatever order its entries come,
\* margin_confidence with sorted=false returns what margin_confidence with
\* sorted=true returns on the entries sorted descending, and both are
\* 1 - (p1 - p2) for the largest and second-largest entries p1 and p2.
C4_MarginSortedFlagAgrees ==
    (fn = "margin_confidence" /\ N >= 2)
    => LET expected == Value(Sub(One, Sub(Largest(tensor), SecondLargest(tensor))))
       IN  /\ sorted = FALSE =>
                /\ out = margin_confidence(DescendingOf(tensor), TRUE).ret
                /\ out = expected
           /\ (sorted = TRUE /\ IsDescending(tensor)) => out = expected

\* A margin call with sorted=false returned on a vector that is not in
\* descending order and whose two largest entries differ.
C4_Witness ==
    /\ fn = "margin_confidence"
    /\ sorted = FALSE
    /\ N >= 3
    /\ IsProbDist(tensor)
    /\ ~IsDescending(tensor)
    /\ tensor[1] # Largest(tensor)
    /\ Lt(SecondLargest(tensor), Largest(tensor))
    /\ out.kind = "float"

\* ------------------------------------------------------------------------
\* C5
\* ------------------------------------------------------------------------

C6_OneHotScoresZero ==
    (/\ fn \in {"margin_confidence", "ratio_confidence", "least_confidence"}
     /\ sorted = FALSE
     /\ N >= 2
     /\ IsOneHot(tensor))
    => (out.kind = "float" /\ IsZero(out.val))

\* A least-confidence call returned 0.0 on a one-hot distribution whose 1 is
\* in last place.
C6_Witness ==
    /\ fn = "least_confidence"
    /\ sorted = FALSE
    /\ N >= 3
    /\ IsOneHot(tensor)
    /\ tensor[N] = One
    /\ out = Value(Zero(0))

\* ------------------------------------------------------------------------
\* C7
\* ------------------------------------------------------------------------

\* C7: softmax is monotonic with input ranking: for every raw score vector x
\* and every positive base, for all indices i, j, x[i] <= x[j] implies
\* softmax(x)[i] <= softmax(x)[j].
C7_SoftmaxMonotonic ==
    fn = "softmax" =>
        /\ out.kind = "tensor"
        /\ \A i, j \in 1..N :
              Le(tensor[i], tensor[j]) => Le(out.vec[i], out.vec[j])

\* C7 with the default base only: for every raw score vector x, x[i] <= x[j]
\* implies softmax(x)[i] <= softmax(x)[j].  Violated as well: on <<0, 128>>
\* the larger exponential overflows and the output is <<0, NaN>>.
C7_SoftmaxMonotonicDefaultBase ==
    (fn = "softmax" /\ base = DefaultBase) =>
        /\ out.kind = "tensor"
        /\ \A i, j \in 1..N :
              Le(tensor[i], tensor[j]) => Le(out.vec[i], out.vec[j])

\* ------------------------------------------------------------------------
\* C8
\* ------------------------------------------------------------------------

\* C8: no call changes the caller's input: across every step (a call of any
\* of the five functions with either value of the sorted flag, or the return
\* to the caller) the caller's tensor keeps the same elements in the same
\* order.
C8_InputUnchanged == [][tensor' = tensor]_vars

\* A margin or ratio call with sorted=false, which sorts, returned and the
\* caller's tensor is not in descending order.
C8_Witness ==
    /\ fn \in {"margin_confidence", "ratio_confidence"}
    /\ sorted = FALSE
    /\ N >= 2
    /\ out.kind = "float"
    /\ ~IsDescending(tensor)
    /\ tensor # DescendingOf(tensor)

\* ------------------------------------------------------------------------
\* C9
\* ------------------------------------------------------------------------

\* C9: for every probability distribution of length N >= 2, entropy_score
\* returns NaN when some entry is exactly 0, and when every entry is strictly
\* positive it returns the defined (finite) value
\* -sum(p_i * log2(p_i)) / log2(N).
C9_EntropyZeroGivesNaN ==
    (fn = "entropy_score" /\ N >= 2 /\ IsProbDist(tensor))
    => /\ out.kind = "float"
       /\ (\E i \in 1..N : IsZero(tensor[i])) => IsNaN(out.val)
       /\ (\A i \in 1..N : ~IsZero(tensor[i])) =>
             /\ IsFinite(out.val)
             /\ out.val =
                  Div(SumOf([i \in 1..N |-> Neg(Mul(tensor[i], Log2(tensor[i])))], N),
                      Log2(FromInt(N)))

\* An entropy call returned NaN on a distribution of three or more entries
\* with an exact zero among positive entries that are not all equal.
C9_Witness ==
    /\ fn = "entropy_score"
    /\ N >= 3
    /\ IsProbDist(tensor)
    /\ \E i \in 1..N : IsZero(tensor[i])
    /\ ~IsOneHot(tensor)
    /\ out = Value(NaN)

\* ------------------------------------------------------------------------
\* C10
\* ------------------------------------------------------------------------

\* C10: for an input vector of length 1, least_confidence raises the division
\* error and entropy_score returns NaN or an infinity: neither returns a
\* score in [0, 1].
C10_SingleLabelIsError ==
    N = 1 =>
        /\ fn = "least_confidence" => out = Raise("ZeroDivisionError")
        /\ fn = "entropy_score" =>
              /\ out.kind = "float"
              /\ IsNaN(out.val) \/ IsInf(out.val)
              /\ ~InUnitRange(out.val)

\* A least-confidence call on the one-entry distribution raised
\* ZeroDivisionError.
C10_Witness ==
    /\ N = 1
    /\ tensor[1] = One
    /\ fn = "least_confidence"
    /\ out = Raise("ZeroDivisionError")
====
